---- MODULE Spec2Model ----
(***************************************************************************)
(* Two Streamlit dashboards of the repository:                             *)
(*   dashboard_wind.py  - hourly wind history from Visual Crossing         *)
(*   streamlit_app.py   - hourly history from NASA POWER                   *)
(* Each script is re-executed from top to bottom on an interaction; the    *)
(* state below is the widget values plus what the last execution rendered  *)
(* and which HTTP requests it issued.                                      *)
(***************************************************************************)
EXTENDS Integers, Sequences, FiniteSets, TLC

VARIABLES
    app,            \* which script this session runs: "wind" or "nasa"
    location,       \* dashboard_wind.py: st.text_input value
    start_date,     \* start_date / fecha_inicio widget (day number)
    end_date,       \* end_date / fecha_fin widget (day number)
    variables_sel,  \* streamlit_app.py: st.multiselect value (list)
    secrets,        \* what st.secrets holds for VISUAL_CROSSING_KEY
    fetch_button,   \* the last execution ran with the button/submit pressed
    run_args,       \* the widget values and secret the last execution read
    upstream,       \* what the provider answers to a request of the last execution
    fetch_called,   \* the last execution called the fetch function
    http_log,       \* requests.get calls of the last execution, in order
    messages,       \* st.warning/error/info/success calls, in order
    data_df,        \* the frame the fetch function returned
    table_shown,    \* st.dataframe was called
    charts,         \* number of st.plotly_chart calls
    download,       \* st.download_button was called
    crashed         \* name of the exception that escaped the script, or "none"

vars == <<app, location, start_date, end_date, variables_sel, secrets,
          fetch_button, run_args, upstream, fetch_called, http_log,
          messages, data_df, table_shown, charts, download, crashed>>

----------------------------------------------------------------------------
(* Bounds of the explored inputs *)

\* the dates the user can pick are day 0 and the last days of the first
\* MaxDateIdx periods of DayStride days, so that the windows from day 0 are
\* DayStride, 2 * DayStride, ... days long
MaxDateIdx == 2
DayStride == 20
\* size of the JSON bodies the provider returns
MaxDays == 2
MaxHours == 2

Dates == {0} \cup { DayStride * i - 1 : i \in 1..MaxDateIdx }

----------------------------------------------------------------------------
(* JSON values.  An object is a function whose domain is the set of keys   *)
(* it has; a JSON null, like Python's None, is the number NoneVal.  A day's *)
(* 'datetime' is a day number; an hour's 'datetime' is an hour of the day,  *)
(* or BadTime for a string pandas cannot parse as a time.                   *)

NoneVal == -1
BadTime == 99

\* dict.get(key): the value, or None when the key is absent
dict_get(d, k) == IF k \in DOMAIN d THEN d[k] ELSE NoneVal

\* dict.get(key, []) for a list-valued key
dict_get_list(d, k) == IF k \in DOMAIN d THEN d[k] ELSE <<>>

\* date.strftime(fmt): the calendar date rendered in the given format
strftime(d, fmt) == [fmt |-> fmt, day |-> d]

\* pd.to_datetime of f"{day_date} {hour['datetime']}": hours since day 0
to_datetime(day_date, hour_time) == day_date * 24 + hour_time

\* pd.to_datetime raises on a string that is no timestamp
parseable(hour_time) == hour_time \in 0..23

----------------------------------------------------------------------------
(* dashboard_wind.py: get_wind_data_real *)

EmptyFrame == <<>>

\* lines 56-65: the record built from one hour object
hour_record(day_date, hour) ==
    [ day        |-> day_date,
      time       |-> hour["datetime"],
      windspeed  |-> dict_get(hour, "windspeed"),
      winddir    |-> dict_get(hour, "winddir"),
      temp       |-> dict_get(hour, "temp"),
      pressure   |-> dict_get(hour, "pressure"),
      humidity   |-> dict_get(hour, "humidity"),
      windgust   |-> dict_get(hour, "windgust"),
      cloudcover |-> dict_get(hour, "cloudcover") ]

\* lines 50-66: the inner loop over one day's hours; hour['datetime'] raises
\* KeyError on an hour object without that key and the loop stops there
RECURSIVE flatten_hours(_, _, _)
flatten_hours(day_date, hours, i) ==
    IF i > Len(hours) THEN [exc |-> "none", rows |-> <<>>]
    ELSE IF "datetime" \notin DOMAIN hours[i]
         THEN [exc |-> "KeyError", rows |-> <<>>]
         ELSE LET rest == flatten_hours(day_date, hours, i + 1)
              IN  IF rest.exc # "none" THEN rest
                  ELSE [exc |-> "none",
                        rows |-> <<hour_record(day_date, hours[i])>> \o rest.rows]

\* lines 46-66: the outer loop over the days; day['datetime'] raises KeyError
RECURSIVE flatten_days(_, _)
flatten_days(days, i) ==
    IF i > Len(days) THEN [exc |-> "none", rows |-> <<>>]
    ELSE IF "datetime" \notin DOMAIN days[i]
         THEN [exc |-> "KeyError", rows |-> <<>>]
         ELSE LET here == flatten_hours(days[i]["datetime"],
                                        dict_get_list(days[i], "hours"), 1)
              IN  IF here.exc # "none" THEN here
                  ELSE LET rest == flatten_days(days, i + 1)
                       IN  IF rest.exc # "none" THEN rest
                           ELSE [exc |-> "none", rows |-> here.rows \o rest.rows]

\* lines 73-96: the typed, renamed row of the frame
frame_row(rec) ==
    [ datetime            |-> to_datetime(rec.day, rec.time),
      wind_speed_kmh      |-> rec.windspeed,
      wind_direction_deg  |-> rec.winddir,
      temperature_celsius |-> rec.temp,
      pressure_hPa        |-> rec.pressure,
      humidity_percent    |-> rec.humidity,
      wind_gust_kmh       |-> rec.windgust,
      cloud_cover_percent |-> rec.cloudcover ]

\* line 98: dropna(subset=['wind_speed_kmh', 'wind_direction_deg'])
dropna(rows) ==
    SelectSeq(rows, LAMBDA r : r.wind_speed_kmh # NoneVal
                               /\ r.wind_direction_deg # NoneVal)

\* line 69: the dtype pd.DataFrame infers for a column of the records: a
\* column holding a number is numeric (None becomes NaN), a column of None
\* only is of dtype object
column_dtype(records, field) ==
    IF \E i \in 1..Len(records) : records[i][field] # NoneVal
    THEN "number" ELSE "object"

\* lines 69-98: the dtypes of the columns the charts plot in wide form;
\* rename, reindex and dropna keep them
frame_dtypes(records) ==
    [ wind_speed_kmh   |-> column_dtype(records, "windspeed"),
      wind_gust_kmh    |-> column_dtype(records, "windgust"),
      pressure_hPa     |-> column_dtype(records, "pressure"),
      humidity_percent |-> column_dtype(records, "humidity") ]

\* the dtypes of a frame without values
NoDtypes ==
    [ wind_speed_kmh |-> "object", wind_gust_kmh |-> "object",
      pressure_hPa |-> "object", humidity_percent |-> "object" ]

\* lines 69-100: DataFrame construction, timestamp parsing, rename, dropna.
\* A frame built from an empty list has no 'datetime' column (KeyError);
\* pd.to_datetime raises ValueError if any string fails to parse.
build_frame(records) ==
    IF records = <<>>
    THEN [exc |-> "KeyError", df |-> EmptyFrame, dtypes |-> NoDtypes]
    ELSE IF \E i \in 1..Len(records) : ~parseable(records[i].time)
         THEN [exc |-> "ValueError", df |-> EmptyFrame, dtypes |-> NoDtypes]
         ELSE [exc |-> "none",
               df  |-> dropna([i \in 1..Len(records) |-> frame_row(records[i])]),
               dtypes |-> frame_dtypes(records)]

Msg(level, text, detail) == [level |-> level, text |-> text, detail |-> detail]

\* lines 102-104: except requests.exceptions.HTTPError
on_http_error(response_text) ==
    [msgs |-> <<Msg("error", "api_error", response_text)>>, df |-> EmptyFrame]

\* lines 105-107: except Exception
on_exception(exc) ==
    [msgs |-> <<Msg("error", "unexpected_error", exc)>>, df |-> EmptyFrame]

\* lines 19-30: the one URL of the call, carrying the whole window
wind_request(loc, start, end, api_key, r) ==
    [ api      |-> "visualcrossing",
      location |-> loc,
      start    |-> strftime(start, "%Y-%m-%d"),
      end      |-> strftime(end, "%Y-%m-%d"),
      key      |-> api_key,
      outcome  |-> r.kind ]

\* lines 33-100: the body of the try block, given the provider's answer r
wind_try(r) ==
    IF r.kind = "transport" THEN on_exception(r.exc)
    ELSE IF r.kind = "http_error" THEN on_http_error(r.text)
    ELSE IF r.kind = "not_json" THEN on_exception("JSONDecodeError")
    ELSE IF r.kind = "json_list" THEN on_exception("AttributeError")
    ELSE LET days_data == dict_get_list(r.data, "days")
         IN  IF days_data = <<>>
             THEN [msgs |-> <<Msg("warning", "no_days", "")>>, df |-> EmptyFrame]
             ELSE LET flat == flatten_days(days_data, 1)
                  IN  IF flat.exc # "none" THEN on_exception(flat.exc)
                      ELSE LET built == build_frame(flat.rows)
                           IN  IF built.exc # "none" THEN on_exception(built.exc)
                               ELSE [msgs |-> <<>>, df |-> built.df,
                                     dtypes |-> built.dtypes]

\* the function with a second attempt after a failed request
get_wind_data_real_retry(loc, start, end, api_key, r) ==
    LET out == wind_try(r)
        req == wind_request(loc, start, end, api_key, r)
    IN  [ requests |-> IF r.kind \in {"transport", "http_error"}
                       THEN <<req, req>> ELSE <<req>>,
          msgs     |-> out.msgs,
          df       |-> out.df,
          dtypes   |-> IF "dtypes" \in DOMAIN out THEN out.dtypes ELSE NoDtypes ]

\* lines 13-107: one requests.get, then the try block; r is the provider's
\* answer to that request
get_wind_data_real(loc, start, end, api_key, r) ==
    LET out == wind_try(r)
    IN  [ requests |-> <<wind_request(loc, start, end, api_key, r)>>,
          msgs     |-> out.msgs,
          df       |-> out.df,
          dtypes   |-> IF "dtypes" \in DOMAIN out THEN out.dtypes ELSE NoDtypes ]

----------------------------------------------------------------------------
(* streamlit_app.py: obtener_datos_nasa *)

\* line 61: pd.io.json.build_url_query(params).  pandas.io.json has no
\* attribute of that name, so evaluating the expression raises
\* AttributeError before the try block is entered.
build_url_query(params) == [exc |-> "AttributeError", query |-> params]

\* lines 47-58: the query parameters of the one request
nasa_params(start, end, variables) ==
    [ parameters |-> variables,
      start      |-> strftime(start, "%Y%m%d"),
      end        |-> strftime(end, "%Y%m%d") ]

nasa_request(params, r) ==
    [ api      |-> "nasapower",
      location |-> "latlon",
      start    |-> params.start,
      end      |-> params.end,
      key      |-> "",
      outcome  |-> r.kind ]

\* lines 81-84: except requests.exceptions.RequestException as e; the
\* message interpolates the exception (status line and URL), then a hint
nasa_on_request_exception(exc_text) ==
    [ raised |-> "none",
      msgs   |-> <<Msg("error", "nasa_request_error", exc_text),
                   Msg("info", "check_inputs", "")>>,
      is_none |-> TRUE, df |-> EmptyFrame ]

\* lines 85-87: except KeyError
nasa_on_key_error ==
    [ raised |-> "none",
      msgs   |-> <<Msg("error", "bad_format", "")>>,
      is_none |-> TRUE, df |-> EmptyFrame ]

\* an exception neither except clause names leaves the function
nasa_escape(exc) ==
    [raised |-> exc, msgs |-> <<>>, is_none |-> TRUE, df |-> EmptyFrame]

\* lines 64-79: the body of the try block, given the provider's answer r.
\* response.json() raises requests.exceptions.JSONDecodeError, a
\* RequestException; indexing a JSON array with a string raises TypeError;
\* pd.to_datetime(..., format=) raises ValueError on a bad stamp.
nasa_try(r) ==
    IF r.kind = "transport" THEN nasa_on_request_exception(r.exc)
    ELSE IF r.kind = "http_error" THEN nasa_on_request_exception(r.status_line)
    ELSE IF r.kind = "not_json" THEN nasa_on_request_exception("JSONDecodeError")
    ELSE IF r.kind = "json_list" THEN nasa_escape("TypeError")
    ELSE IF "properties" \notin DOMAIN r.data THEN nasa_on_key_error
    ELSE IF "parameter" \notin DOMAIN r.data["properties"] THEN nasa_on_key_error
    ELSE LET index == r.data["properties"]["parameter"]
         IN  IF \E i \in 1..Len(index) : ~parseable(index[i])
             THEN nasa_escape("ValueError")
             ELSE [ raised |-> "none", msgs |-> <<>>, is_none |-> FALSE,
                    df |-> [i \in 1..Len(index) |-> [Fecha_Hora_GMT |-> index[i]]] ]

\* lines 44-87
obtener_datos_nasa(start, end, variables, r) ==
    LET params == nasa_params(start, end, variables)
        url    == build_url_query(params)
    IN  IF url.exc # "none"
        THEN [ requests |-> <<>>, raised |-> url.exc, msgs |-> <<>>,
               is_none |-> TRUE, df |-> EmptyFrame ]
        ELSE LET out == nasa_try(r)
             IN  [ requests |-> <<nasa_request(url.query, r)>>,
                   raised |-> out.raised, msgs |-> out.msgs,
                   is_none |-> out.is_none, df |-> out.df ]

----------------------------------------------------------------------------
(* What the providers may answer *)

TransportFailures ==
    { [kind |-> "transport", exc |-> e] : e \in {"ConnectionError", "Timeout"} }

HttpErrors ==
    { [kind |-> "http_error", status_line |-> "401 Client Error", text |-> "body_401"],
      [kind |-> "http_error", status_line |-> "500 Server Error", text |-> "body_500"] }

BadBodies == { [kind |-> "not_json"], [kind |-> "json_list"] }

\* hour objects of a Visual Crossing day: complete ones, ones lacking or
\* nulling a field, one without its time, one with an unparseable time
HourObjects ==
    { [datetime |-> t, windspeed |-> 5, winddir |-> 90, temp |-> 20,
       pressure |-> 1013, humidity |-> 60, windgust |-> 9, cloudcover |-> 50]
         : t \in {0, 1} }
    \cup
    { [datetime |-> 0, winddir |-> 90],
      [datetime |-> 1, windspeed |-> 5, winddir |-> NoneVal, temp |-> 20],
      [datetime |-> 0, windspeed |-> 7, winddir |-> 180],
      [datetime |-> 1, windspeed |-> 6, winddir |-> 270, windgust |-> 9,
       humidity |-> 60],
      [windspeed |-> 5, winddir |-> 90, temp |-> 20],
      [datetime |-> BadTime, windspeed |-> 5, winddir |-> 90] }

SeqsUpTo(S, n) == UNION { [1..k -> S] : k \in 0..n }

DayObjects(maxHours) ==
    { [datetime |-> d, hours |-> hs] : d \in {0, 1}, hs \in SeqsUpTo(HourObjects, maxHours) }
    \cup { [datetime |-> d] : d \in {0, 1} }
    \cup { [hours |-> <<h>>] : h \in {x \in HourObjects : "temp" \in DOMAIN x} }

WindBodies(maxDays, maxHours) ==
    { [kind |-> "json", data |-> [days |-> ds]]
         : ds \in SeqsUpTo(DayObjects(maxHours), maxDays) }
    \cup { [kind |-> "json", data |-> [queryCost |-> 1]] }

WindOutcomes(maxDays, maxHours) ==
    TransportFailures \cup HttpErrors \cup BadBodies \cup WindBodies(maxDays, maxHours)

NasaBodies ==
    { [kind |-> "json", data |-> [properties |-> [parameter |-> ix]]]
         : ix \in {<<>>, <<0>>, <<0, 1>>, <<BadTime>>} }
    \cup { [kind |-> "json", data |-> [properties |-> [units |-> 1]]],
           [kind |-> "json", data |-> [messages |-> 1]] }

NasaOutcomes == TransportFailures \cup HttpErrors \cup BadBodies \cup NasaBodies

NoOutcome == [kind |-> "none"]

----------------------------------------------------------------------------
(* What one execution of a script renders *)

View(called, log, msgs, df, shown, nCharts, dl, exc) ==
    [ fetch_called |-> called, http_log |-> log, messages |-> msgs,
      data_df |-> df, table_shown |-> shown, charts |-> nCharts,
      download |-> dl, crashed |-> exc ]

\* st.secrets as deployed: no secrets file, a file without the key, or a value
SecretStates ==
    { [kind |-> "no_file", value |-> ""], [kind |-> "no_key", value |-> ""],
      [kind |-> "value", value |-> ""], [kind |-> "value", value |-> "vc-key"] }

\* dashboard_wind.py lines 143-147: the lookup, its except clause
read_secret(sec) ==
    IF sec.kind \in {"no_file", "no_key"}
    THEN [msgs |-> <<Msg("error", "no_api_key", "")>>, api_key |-> "None"]
    ELSE [msgs |-> <<>>, api_key |-> sec.value]

\* line 149: if api_key
truthy(api_key) == api_key \notin {"None", ""}

\* dashboard_wind.py lines 171-176 and 211-216: px.line with a list of y
\* columns (wide form) raises ValueError when the columns differ in type,
\* numeric against object
wide_form_ok(dtypes, y1, y2) == dtypes[y1] = dtypes[y2]

\* dashboard_wind.py lines 155-221: what is rendered for the returned frame.
\* The charts are built outside any try block, in the order speed and gust,
\* temperature, direction, pressure and humidity; an exception of px.line
\* ends the script after what was rendered before it.
wind_render(fetched) ==
    IF fetched.df # EmptyFrame
    THEN LET upTo(n, exc) ==
                 View(TRUE, fetched.requests,
                      fetched.msgs \o <<Msg("success", "loaded", "")>>,
                      fetched.df, TRUE, n, FALSE, exc)
         IN  IF ~wide_form_ok(fetched.dtypes, "wind_speed_kmh", "wind_gust_kmh")
             THEN upTo(0, "ValueError")
             ELSE IF ~wide_form_ok(fetched.dtypes, "pressure_hPa", "humidity_percent")
             THEN upTo(3, "ValueError")
             ELSE upTo(4, "none")
    ELSE View(TRUE, fetched.requests,
              fetched.msgs \o <<Msg("info", "no_data", "")>>,
              fetched.df, FALSE, 0, FALSE, "none")

\* dashboard_wind.py lines 135-223: one execution of the script
wind_script(pressed, loc, start, end, sec, r) ==
    IF ~pressed
    THEN View(FALSE, <<>>, <<Msg("info", "idle_hint", "")>>, EmptyFrame,
              FALSE, 0, FALSE, "none")
    ELSE IF loc = ""
    THEN View(FALSE, <<>>, <<Msg("warning", "need_location", "")>>, EmptyFrame,
              FALSE, 0, FALSE, "none")
    ELSE IF start > end
    THEN View(FALSE, <<>>, <<Msg("error", "bad_range", "")>>, EmptyFrame,
              FALSE, 0, FALSE, "none")
    ELSE LET got == read_secret(sec)
         IN  IF truthy(got.api_key)
             THEN LET fetched == get_wind_data_real(loc, start, end, got.api_key, r)
                      shown   == wind_render(fetched)
                  IN  [shown EXCEPT !.messages = got.msgs \o @]
             ELSE View(FALSE, <<>>, got.msgs, EmptyFrame, FALSE, 0, FALSE, "none")

\* streamlit_app.py lines 91-129: one execution of the script
nasa_script(pressed, start, end, variables, r) ==
    IF ~pressed
    THEN View(FALSE, <<>>, <<>>, EmptyFrame, FALSE, 0, FALSE, "none")
    ELSE IF variables = <<>>
    THEN View(FALSE, <<>>, <<Msg("warning", "need_variable", "")>>, EmptyFrame,
              FALSE, 0, FALSE, "none")
    ELSE LET got == obtener_datos_nasa(start, end, variables, r)
         IN  IF got.raised # "none"
             THEN View(TRUE, got.requests, got.msgs, EmptyFrame, FALSE, 0, FALSE,
                       got.raised)
             ELSE IF ~got.is_none
             THEN View(TRUE, got.requests,
                       got.msgs \o <<Msg("success", "obtained", "")>>,
                       got.df, TRUE, 0, TRUE, "none")
             ELSE View(TRUE, got.requests,
                       got.msgs \o <<Msg("error", "no_data", "")>>,
                       EmptyFrame, FALSE, 0, FALSE, "none")

----------------------------------------------------------------------------
(* The state machine *)

Locations == {"", "Bogota, Colombia"}

\* streamlit_app.py lines 23-38: the selections, mapped to NASA's names
VariableLists == { <<>>, <<"WS10M">>, <<"WS10M", "WD10M">> }

Args == [location |-> location, start_date |-> start_date, end_date |-> end_date,
         variables |-> variables_sel, secrets |-> secrets]

Show(view) ==
    /\ fetch_called' = view.fetch_called
    /\ http_log' = view.http_log
    /\ messages' = view.messages
    /\ data_df' = view.data_df
    /\ table_shown' = view.table_shown
    /\ charts' = view.charts
    /\ download' = view.download
    /\ crashed' = view.crashed

\* an execution of dashboard_wind.py on the (primed) widget values
RunWind(pressed, r) ==
    /\ fetch_button' = pressed
    /\ upstream' = r
    /\ run_args' = Args'
    /\ Show(wind_script(pressed, location', start_date', end_date', secrets', r))

\* an execution of streamlit_app.py on the (primed) widget values
RunNasa(pressed, r) ==
    /\ fetch_button' = pressed
    /\ upstream' = r
    /\ run_args' = Args'
    /\ Show(nasa_script(pressed, start_date', end_date', variables_sel', r))

KeepView ==
    UNCHANGED <<fetch_button, run_args, upstream, fetch_called, http_log,
                messages, data_df, table_shown, charts, download, crashed>>

\* The first execution of either script, on the widgets' defaults: a valid
\* window (a week ending today in dashboard_wind.py, January 2024 in
\* streamlit_app.py), here the first period.
Init ==
    /\ app \in {"wind", "nasa"}
    /\ location = "Bogota, Colombia"
    /\ start_date = 0 /\ end_date = DayStride - 1
    /\ variables_sel = <<"WS10M", "WD10M">>
    /\ secrets \in IF app = "wind" THEN SecretStates
                                   ELSE {[kind |-> "no_file", value |-> ""]}
    /\ fetch_button = FALSE
    /\ upstream = NoOutcome
    /\ run_args = Args
    /\ LET view == IF app = "wind"
                   THEN wind_script(FALSE, location, start_date, end_date, secrets, NoOutcome)
                   ELSE nasa_script(FALSE, start_date, end_date, variables_sel, NoOutcome)
       IN  /\ fetch_called = view.fetch_called
           /\ http_log = view.http_log
           /\ messages = view.messages
           /\ data_df = view.data_df
           /\ table_shown = view.table_shown
           /\ charts = view.charts
           /\ download = view.download
           /\ crashed = view.crashed

\* dashboard_wind.py line 118: editing the sidebar text re-executes the script
SetLocation(l) ==
    /\ app = "wind"
    /\ location' = l
    /\ UNCHANGED <<app, start_date, end_date, variables_sel, secrets>>
    /\ RunWind(FALSE, NoOutcome)

\* dashboard_wind.py lines 127-129: a sidebar date change re-executes the script
SetWindDates(s, e) ==
    /\ app = "wind"
    /\ start_date' = s /\ end_date' = e
    /\ UNCHANGED <<app, location, variables_sel, secrets>>
    /\ RunWind(FALSE, NoOutcome)

\* the deployment's secrets are edited; nothing is re-executed
ConfigureSecrets(sec) ==
    /\ app = "wind"
    /\ secrets' = sec
    /\ UNCHANGED <<app, location, start_date, end_date, variables_sel>>
    /\ KeepView

\* dashboard_wind.py line 131: the button is pressed
PressFetch(r) ==
    /\ app = "wind"
    /\ UNCHANGED <<app, location, start_date, end_date, variables_sel, secrets>>
    /\ RunWind(TRUE, r)

\* streamlit_app.py lines 13-35: widgets inside st.form change without
\* re-executing the script
SetNasaForm(s, e, vs) ==
    /\ app = "nasa"
    /\ start_date' = s /\ end_date' = e /\ variables_sel' = vs
    /\ UNCHANGED <<app, location, secrets>>
    /\ KeepView

\* streamlit_app.py line 40: the form is submitted
Submit(r) ==
    /\ app = "nasa"
    /\ UNCHANGED <<app, location, start_date, end_date, variables_sel, secrets>>
    /\ RunNasa(TRUE, r)

Next ==
    \/ \E l \in Locations : SetLocation(l)
    \/ \E s \in Dates, e \in Dates : SetWindDates(s, e)
    \/ \E sec \in SecretStates : ConfigureSecrets(sec)
    \/ \E r \in WindOutcomes(1, 1) : PressFetch(r)
    \/ \E s \in Dates, e \in Dates, vs \in VariableLists : SetNasaForm(s, e, vs)
    \/ \E r \in NasaOutcomes : Submit(r)

Spec == Init /\ [][Next]_vars

\* get_wind_data_real applied once to each answer of the provider, with bodies
\* of up to MaxDays days of up to MaxHours hours
InitFetch ==
    /\ app = "wind"
    /\ location = "Bogota, Colombia"
    /\ start_date = 0 /\ end_date = DayStride - 1
    /\ variables_sel = <<>>
    /\ secrets = [kind |-> "value", value |-> "vc-key"]
    /\ fetch_button = FALSE
    /\ upstream \in WindOutcomes(MaxDays, MaxHours)
    /\ run_args = Args
    /\ fetch_called = FALSE /\ http_log = <<>>
    /\ messages = <<Msg("info", "idle_hint", "")>>
    /\ data_df = EmptyFrame /\ table_shown = FALSE /\ charts = 0
    /\ download = FALSE /\ crashed = "none"

FetchOnce ==
    /\ app = "wind" /\ ~fetch_button
    /\ UNCHANGED <<app, location, start_date, end_date, variables_sel, secrets>>
    /\ RunWind(TRUE, upstream)

NextFetch == FetchOnce

SpecFetch == InitFetch /\ [][NextFetch]_vars

----------------------------------------------------------------------------
(* Properties *)

HasMessage(level) == \E i \in 1..Len(messages) : messages[i].level = level

NothingRendered == ~table_shown /\ charts = 0 /\ ~download

RunRangeInvalid ==
    \/ run_args.start_date > run_args.end_date
    \/ app = "nasa" /\ run_args.variables = <<>>

\* C1: a refresh whose input is an invalid range (start after end, or an
\* empty variable selection) calls no fetch function and issues no HTTP GET,
\* reports a message to the user, and renders no table, chart or download.
C1_InvalidRangeRejected ==
    (fetch_button /\ RunRangeInvalid) =>
        /\ ~fetch_called
        /\ http_log = <<>>
        /\ HasMessage("warning") \/ HasMessage("error")
        /\ NothingRendered

CredentialMissing(sec) == sec.kind \in {"no_file", "no_key"} \/ sec.value = ""

\* C2: in dashboard_wind.py, a refresh with valid inputs and a missing
\* credential (absent from the secret store, or present but empty) does not
\* call get_wind_data_real, issues no HTTP request, reports the missing
\* credential as an error, and the script ends normally.
C2_MissingCredentialReported ==
    ( /\ app = "wind" /\ fetch_button
      /\ run_args.location # ""
      /\ run_args.start_date <= run_args.end_date
      /\ CredentialMissing(run_args.secrets) ) =>
        /\ ~fetch_called
        /\ http_log = <<>>
        /\ HasMessage("error")
        /\ crashed = "none"

\* C3: no exception escapes a refresh, whatever the upstream call and the
\* request construction do: every execution reaches its normal end.
C3_NoExceptionEscapes == crashed = "none"

\* number of days a request asks for
SpanOf(req) == req.end.day - req.start.day + 1

\* the requests of the log are consecutive sub-windows of at most cap days,
\* in chronological order, covering [start, end]
IsSplitOf(log, start, end, cap) ==
    /\ Len(log) >= 1
    /\ log[1].start.day = start
    /\ log[Len(log)].end.day = end
    /\ \A i \in 1..Len(log) : SpanOf(log[i]) >= 1 /\ SpanOf(log[i]) <= cap
    /\ \A i \in 1..(Len(log) - 1) : log[i + 1].start.day = log[i].end.day + 1

\* C4: the requests issued for a window are consecutive,
\* non-overlapping sub-windows of at most 30 days each, in chronological
\* order, together covering the window (2 requests for a 40-day window).
C4_WindowSplitAtCap ==
    (fetch_called /\ http_log # <<>>) =>
        IsSplitOf(http_log, run_args.start_date, run_args.end_date, 30)

FailedRequest(req) == req.outcome \in {"transport", "http_error"}

\* C5: nothing is retried.  Within one refresh no window is requested twice,
\* a failed request (transport error or non-2xx status) is the last request
\* of the refresh, and the failed window contributes no rows.
C5_NoRetry ==
    /\ \A i, j \in 1..Len(http_log) :
          (i # j) => <<http_log[i].start, http_log[i].end>>
                       # <<http_log[j].start, http_log[j].end>>
    /\ \A i \in 1..Len(http_log) :
          FailedRequest(http_log[i]) =>
              /\ i = Len(http_log)
              /\ data_df = EmptyFrame
              /\ ~table_shown

\* a refresh whose only request failed
C5_Witness ==
    /\ fetch_called /\ Len(http_log) = 1 /\ FailedRequest(http_log[1])

\* the positions <<day, hour>> of the hour objects of a JSON body
HourPositions(data) ==
    LET days == dict_get_list(data, "days")
    IN  UNION { { <<i, j>> : j \in 1..Len(dict_get_list(days[i], "hours")) }
                  : i \in 1..Len(days) }

HourAt(data, p) == data["days"][p[1]]["hours"][p[2]]

BothPresent(hour) ==
    dict_get(hour, "windspeed") # NoneVal /\ dict_get(hour, "winddir") # NoneVal

\* C6: for a successful response the returned table holds exactly the hour
\* records whose wind speed and direction are both present: as many rows as
\* there are such hour objects, and no row lacking either value.
C6_ExactlyCompleteRecords ==
    (fetch_button /\ fetch_called /\ upstream.kind = "json") =>
        /\ Len(data_df) =
              Cardinality({ p \in HourPositions(upstream.data) :
                              BothPresent(HourAt(upstream.data, p)) })
        /\ \A i \in 1..Len(data_df) :
              data_df[i].wind_speed_kmh # NoneVal
              /\ data_df[i].wind_direction_deg # NoneVal

\* an hour object is well formed when it has a parseable time and lies in a
\* day that has its date
WellFormed(data, p) ==
    /\ "datetime" \in DOMAIN data["days"][p[1]]
    /\ "datetime" \in DOMAIN HourAt(data, p)
    /\ parseable(HourAt(data, p)["datetime"])

\* C7: malformed hour records are dropped one by one: every well-formed hour
\* record of a successful response (with speed and direction present) has
\* its row in the returned table, whatever else the response contains.
C7_MalformedDroppedOneByOne ==
    (fetch_button /\ fetch_called /\ upstream.kind = "json") =>
        \A p \in HourPositions(upstream.data) :
            (WellFormed(upstream.data, p) /\ BothPresent(HourAt(upstream.data, p))) =>
                \E i \in 1..Len(data_df) :
                    data_df[i].datetime =
                        to_datetime(upstream.data["days"][p[1]]["datetime"],
                                    HourAt(upstream.data, p)["datetime"])

\* C8: the timestamps of the returned rows are strictly increasing, hence
\* pairwise distinct, for every response.
C8_TimestampsStrictlyIncreasing ==
    \A i, j \in 1..Len(data_df) :
        (i < j) => data_df[i].datetime < data_df[j].datetime

TransportFailed == \E i \in 1..Len(http_log) : http_log[i].outcome = "transport"

\* C9: a transport failure is surfaced at warning level, not at
\* error level, and contributes no rows.
C9_TransportFailureIsWarning ==
    TransportFailed =>
        /\ HasMessage("warning") /\ ~HasMessage("error")
        /\ data_df = EmptyFrame

====
